---- MODULE Spec2Model ----
(***************************************************************************)
(* Model of the stem-splitter repository.                                  *)
(*                                                                         *)
(*   runpod_handler.py : handler(event) and the helpers it calls, one      *)
(*                       action per stage of the handler.  The GPU probe,  *)
(*                       the file system, the network and the demucs       *)
(*                       subprocess are the environment: each of their     *)
(*                       outcomes is a nondeterministic choice.            *)
(*   deploy.py         : main() and the five steps it runs.                *)
(*                                                                         *)
(* Python dicts are functions whose DOMAIN is the set of keys present, so  *)
(* that "key in d" and d.get(key, default) are modelled as the code        *)
(* evaluates them.  Seconds are kept in tenths where the source uses a     *)
(* fractional value (max_segment 7.8 is 78).                               *)
(***************************************************************************)
EXTENDS Integers, Sequences, FiniteSets, TLC

VARIABLES
    pc,             \* position of the serverless worker in handler()
    requests,       \* number of handler invocations so far
    event,          \* the event of the current invocation
    model,          \* handler local: model
    two_stems,      \* handler local: two_stems
    segment,        \* handler local: segment
    gpu_available,  \* handler local: gpu_available
    gpu_probed,     \* check_gpu_availability() was called in this invocation
    seg_consulted,  \* get_optimal_segment_size() was called in this invocation
    temp_dir,       \* handler local: temp_dir (0 while none was created)
    fs_dirs,        \* temporary directories that exist on disk
    input_file,     \* the downloaded input exists in temp_dir
    cmd,            \* the command line given to subprocess.run
    proc,           \* how subprocess.run ended: "none" until it has
    out_tree,       \* what demucs left under output_dir/separated/<model>
    files,          \* stem files in the track directory demucs wrote
    stems,          \* run_demucs_separation local: stems (name -> path)
    todo,           \* stems.items() not yet iterated by the encode loop
    encoded_stems,  \* handler local: encoded_stems
    pending,        \* value of the return statement waiting for the finally
    result,         \* what handler returned to the caller
    completed,      \* stages of this invocation that finished successfully
    cleanup_ran,    \* shutil.rmtree was attempted in this invocation
    dpc,            \* deploy.py: position in main()
    tools_left,     \* deploy.py: required_tools not yet looked up by the loop
    missing_tools,  \* deploy.py: check_requirements local missing_tools
    installed,      \* deploy.py: tools `which` finds on this machine
    image,          \* deploy.py: state of the image voiceai-stem-splitter:latest
    dfiles,         \* deploy.py: state of runpod_config.json and DEPLOYMENT.md
    steps,          \* deploy.py: steps main() has called, in order
    passed,         \* deploy.py: steps that returned normally (True, for the checks)
    exit_status     \* deploy.py: exit status of the process (-1 while running)

hvars == <<pc, requests, event, model, two_stems, segment, gpu_available,
           gpu_probed, seg_consulted, temp_dir, fs_dirs, input_file, cmd,
           proc, out_tree, files, stems, todo, encoded_stems, pending, result,
           completed, cleanup_ran>>
dvars == <<dpc, tools_left, missing_tools, installed, image, dfiles, steps,
           passed, exit_status>>
vars == <<hvars, dvars>>

----------------------------------------------------------------------------
(* Bounds *)

\* handler invocations served by one worker process
MaxRequests == 2

----------------------------------------------------------------------------
(* Python values *)

EmptyDict == [k \in {} |-> k]
None == "None"
\* None in a position that otherwise holds a number of seconds
NoneSeg == 0 - 1

PyDict(d) == [type |-> "dict", items |-> d]
PyNone == [type |-> "NoneType"]

\* d.get(k, default)
Get(d, k, default) == IF k \in DOMAIN d THEN d[k] ELSE default

\* the dict with at most the key k, for every value of V
Opt(k, V) == {EmptyDict} \cup {k :> v : v \in V}

IsPrefix(s, t) == /\ Len(s) <= Len(t)
                  /\ \A i \in 1..Len(s) : s[i] = t[i]

----------------------------------------------------------------------------
(* runpod_handler.py: configuration and pure helpers *)

HTModels == {"htdemucs", "htdemucs_ft", "htdemucs_6s"}
MDXModels == {"mdx", "mdx_extra", "mdx_q", "mdx_extra_q"}

MODELS ==
    [m \in HTModels \cup MDXModels |->
        IF m \in HTModels
        THEN [memory_required |-> CASE m = "htdemucs" -> 7000
                                    [] m = "htdemucs_ft" -> 8000
                                    [] OTHER -> 9000,
              segment_default |-> 7,
              max_segment |-> 78]
        ELSE [memory_required |-> IF m \in {"mdx", "mdx_extra"} THEN 4000 ELSE 3000,
              segment_default |-> 15]]

\* get_optimal_segment_size with the model tested before the hardware
get_optimal_segment_size_mut(m, gpu) ==
    IF m \in {"htdemucs", "htdemucs_ft", "htdemucs_6s"} THEN 7
    ELSE IF ~gpu THEN 30
    ELSE Get(MODELS, m, MODELS["htdemucs"]).segment_default

get_optimal_segment_size(m, gpu) ==
    IF ~gpu THEN 30
    ELSE IF m \in {"htdemucs", "htdemucs_ft", "htdemucs_6s"} THEN 7
    ELSE Get(MODELS, m, MODELS["htdemucs"]).segment_default

\* python truthiness of an Optional[str]
Truthy(s) == s # None /\ s # ""

\* base64.b64encode of the bytes of the file at path
encode_audio_to_base64(path) == <<"b64", path>>

StemNames == <<"drums", "bass", "other", "vocals">>
Exts == <<".wav", ".mp3">>

\* the first extension of Exts under which the stem exists, 0 if none
FirstExt(fs, name) ==
    IF <<name, Exts[1]>> \in fs THEN 1
    ELSE IF <<name, Exts[2]>> \in fs THEN 2
    ELSE 0

\* the names run_demucs_separation probes, in probing order
Probed(ts) == IF Truthy(ts) THEN <<ts>> ELSE StemNames

RECURSIVE CollectFrom(_, _, _)
CollectFrom(fs, names, i) ==
    IF i > Len(names) THEN <<>>
    ELSE LET e == FirstExt(fs, names[i])
         IN (IF e = 0 THEN <<>> ELSE << <<names[i], Exts[e]>> >>)
            \o CollectFrom(fs, names, i + 1)

\* the stems dict, as the sequence of its (name, extension) items in
\* insertion order
CollectStems(fs, ts) == CollectFrom(fs, Probed(ts), 1)

ErrorResult(msg) == [error |-> msg]

----------------------------------------------------------------------------
(* runpod_handler.py: the requests the worker may receive *)

URLs == {"https://example.com/audio.mp3"}
ModelValues == DOMAIN MODELS \cup {"unknown_model"}
TwoStemsValues == {"vocals", ""}
SegmentValues == {NoneSeg, 10}

InputDicts ==
    { a @@ m @@ t @@ s :
        a \in Opt("audio_url", URLs),
        m \in Opt("model", ModelValues),
        t \in Opt("two_stems", TwoStemsValues),
        s \in Opt("segment", SegmentValues) }

Events ==
    {PyDict(EmptyDict), PyDict("input" :> PyNone)}
        \cup {PyDict("input" :> PyDict(d)) : d \in InputDicts}

\* what demucs is expected to write for a track
DemucsOutputs(ts) ==
    IF Truthy(ts) THEN {ts, "no_" \o ts}
    ELSE {StemNames[i] : i \in 1..Len(StemNames)}

StageOrder == <<"download", "demucs", "locate", "encode", "return">>

----------------------------------------------------------------------------
(* runpod_handler.py: handler(event), stage by stage *)

HInit ==
    /\ pc = "idle"
    /\ requests = 0
    /\ event = PyDict(EmptyDict)
    /\ model = None
    /\ two_stems = None
    /\ segment = NoneSeg
    /\ gpu_available = FALSE
    /\ gpu_probed = FALSE
    /\ seg_consulted = FALSE
    /\ temp_dir = 0
    /\ fs_dirs = {}
    /\ input_file = FALSE
    /\ cmd = EmptyDict
    /\ proc = "none"
    /\ out_tree = "none"
    /\ files = {}
    /\ stems = <<>>
    /\ todo = <<>>
    /\ encoded_stems = EmptyDict
    /\ pending = EmptyDict
    /\ result = EmptyDict
    /\ completed = <<>>
    /\ cleanup_ran = FALSE

\* runpod.serverless calls handler(event): a fresh frame, the same disk
Receive ==
    /\ pc \in {"idle", "returned"}
    /\ requests < MaxRequests
    /\ \E ev \in Events : event' = ev
    /\ requests' = requests + 1
    /\ pc' = "validate"
    /\ model' = None
    /\ two_stems' = None
    /\ segment' = NoneSeg
    /\ gpu_available' = FALSE
    /\ gpu_probed' = FALSE
    /\ seg_consulted' = FALSE
    /\ temp_dir' = 0
    /\ input_file' = FALSE
    /\ cmd' = EmptyDict
    /\ proc' = "none"
    /\ out_tree' = "none"
    /\ files' = {}
    /\ stems' = <<>>
    /\ todo' = <<>>
    /\ encoded_stems' = EmptyDict
    /\ pending' = EmptyDict
    /\ result' = EmptyDict
    /\ completed' = <<>>
    /\ cleanup_ran' = FALSE
    /\ UNCHANGED <<fs_dirs, dvars>>

\* a return (or an exception reaching the outer except) outside the inner try
ReturnDirect(r) ==
    /\ result' = r
    /\ pc' = "returned"

\* a return (or an exception reaching the inner except) inside the inner
\* try: the finally clause runs before the caller sees the value
ReturnViaFinally(r) ==
    /\ pending' = r
    /\ pc' = "cleanup"

\* Validate with the model validated before audio_url is looked for
ValidateMut ==
    /\ pc = "validate"
    /\ LET input_data == Get(event.items, "input", PyDict(EmptyDict))
       IN IF input_data.type # "dict"
          THEN /\ ReturnDirect(ErrorResult("Handler error: argument of type 'NoneType' is not iterable"))
               /\ UNCHANGED <<model, two_stems, segment>>
          ELSE /\ model' = Get(input_data.items, "model", "htdemucs")
               /\ two_stems' = Get(input_data.items, "two_stems", None)
               /\ segment' = Get(input_data.items, "segment", NoneSeg)
               /\ IF model' \notin DOMAIN MODELS
                  THEN ReturnDirect(ErrorResult("Invalid model '" \o model' \o "'"))
                  ELSE IF "audio_url" \notin DOMAIN input_data.items
                  THEN ReturnDirect(ErrorResult("Missing required parameter: audio_url"))
                  ELSE /\ pc' = "gpu"
                       /\ UNCHANGED result
    /\ UNCHANGED <<requests, event, gpu_available, gpu_probed, seg_consulted,
                   temp_dir, fs_dirs, input_file, cmd, proc, out_tree, files, stems,
                   todo, encoded_stems, pending, completed, cleanup_ran, dvars>>

Validate ==
    /\ pc = "validate"
    /\ LET input_data == Get(event.items, "input", PyDict(EmptyDict))
       IN IF input_data.type # "dict"
          THEN \* "audio_url" not in None raises TypeError
               /\ ReturnDirect(ErrorResult("Handler error: argument of type 'NoneType' is not iterable"))
               /\ UNCHANGED <<model, two_stems, segment>>
          ELSE IF "audio_url" \notin DOMAIN input_data.items
          THEN /\ ReturnDirect(ErrorResult("Missing required parameter: audio_url"))
               /\ UNCHANGED <<model, two_stems, segment>>
          ELSE /\ model' = Get(input_data.items, "model", "htdemucs")
               /\ two_stems' = Get(input_data.items, "two_stems", None)
               /\ segment' = Get(input_data.items, "segment", NoneSeg)
               /\ IF model' \notin DOMAIN MODELS
                  THEN ReturnDirect(ErrorResult("Invalid model '" \o model' \o "'"))
                  ELSE /\ pc' = "gpu"
                       /\ UNCHANGED result
    /\ UNCHANGED <<requests, event, gpu_available, gpu_probed, seg_consulted,
                   temp_dir, fs_dirs, input_file, cmd, proc, out_tree, files, stems,
                   todo, encoded_stems, pending, completed, cleanup_ran, dvars>>

CheckGPU ==
    /\ pc = "gpu"
    /\ \E gpu \in BOOLEAN :
        /\ gpu_available' = gpu
        /\ gpu_probed' = TRUE
        /\ IF segment = NoneSeg
           THEN /\ segment' = get_optimal_segment_size(model, gpu)
                /\ seg_consulted' = TRUE
           ELSE UNCHANGED <<segment, seg_consulted>>
    /\ pc' = "mkdtemp"
    /\ UNCHANGED <<requests, event, model, two_stems, temp_dir, fs_dirs,
                   input_file, cmd, proc, out_tree, files, stems, todo, encoded_stems,
                   pending, result, completed, cleanup_ran, dvars>>

MkTemp ==
    /\ pc = "mkdtemp"
    /\ \/ /\ temp_dir' = requests
          /\ fs_dirs' = fs_dirs \cup {requests}
          /\ pc' = "makedirs"
          /\ UNCHANGED result
       \/ /\ ReturnDirect(ErrorResult("Handler error: mkdtemp failed"))
          /\ UNCHANGED <<temp_dir, fs_dirs>>
    /\ UNCHANGED <<requests, event, model, two_stems, segment, gpu_available,
                   gpu_probed, seg_consulted, input_file, cmd, proc, out_tree, files,
                   stems, todo, encoded_stems, pending, completed, cleanup_ran,
                   dvars>>

MakeDirs ==
    /\ pc = "makedirs"
    /\ \/ /\ pc' = "download"
          /\ UNCHANGED result
       \/ ReturnDirect(ErrorResult("Handler error: makedirs failed"))
    /\ UNCHANGED <<requests, event, model, two_stems, segment, gpu_available,
                   gpu_probed, seg_consulted, temp_dir, fs_dirs, input_file, cmd, proc,
                   out_tree, files, stems, todo, encoded_stems, pending,
                   completed, cleanup_ran, dvars>>

\* Download with a failed download swallowed: the handler goes on to demucs
DownloadMut ==
    /\ pc = "download"
    /\ \/ /\ input_file' = TRUE
          /\ completed' = Append(completed, "download")
          /\ pc' = "demucs"
          /\ UNCHANGED pending
       \/ /\ pc' = "demucs"
          /\ UNCHANGED <<input_file, completed, pending>>
    /\ UNCHANGED <<requests, event, model, two_stems, segment, gpu_available,
                   gpu_probed, seg_consulted, temp_dir, fs_dirs, cmd, proc, out_tree,
                   files, stems, todo, encoded_stems, result, cleanup_ran, dvars>>

Download ==
    /\ pc = "download"
    /\ \/ /\ input_file' = TRUE
          /\ completed' = Append(completed, "download")
          /\ pc' = "demucs"
          /\ UNCHANGED pending
       \/ /\ ReturnViaFinally(ErrorResult("Separation failed: " \o "Failed to download audio"))
          /\ UNCHANGED <<input_file, completed>>
    /\ UNCHANGED <<requests, event, model, two_stems, segment, gpu_available,
                   gpu_probed, seg_consulted, temp_dir, fs_dirs, cmd, proc, out_tree,
                   files, stems, todo, encoded_stems, result, cleanup_ran, dvars>>

\* RunDemucs without the except clause for subprocess.TimeoutExpired: the
\* generic clause re-raises the exception with its own message
RunDemucsMut ==
    /\ pc = "demucs"
    /\ cmd' = [n |-> model,
               two_stems |-> IF Truthy(two_stems) THEN two_stems ELSE None,
               segment |-> segment,
               input |-> temp_dir]
    /\ \/ /\ proc' = "ok"
          /\ \E tree \in {"none", "empty", "track"} :
                /\ out_tree' = tree
                /\ IF tree = "track"
                   THEN \E names \in SUBSET DemucsOutputs(two_stems) :
                        \E e \in 1..Len(Exts) :
                            files' = {<<nm, Exts[e]>> : nm \in names}
                   ELSE files' = {}
          /\ completed' = Append(completed, "demucs")
          /\ pc' = "locate"
          /\ UNCHANGED pending
       \/ /\ proc' = "failed"
          /\ ReturnViaFinally(ErrorResult("Separation failed: " \o "Demucs process failed"))
          /\ UNCHANGED <<out_tree, files, completed>>
       \/ /\ proc' = "timeout"
          /\ ReturnViaFinally(ErrorResult("Separation failed: " \o "Command timed out after 300 seconds"))
          /\ UNCHANGED <<out_tree, files, completed>>
    /\ UNCHANGED <<requests, event, model, two_stems, segment, gpu_available,
                   gpu_probed, seg_consulted, temp_dir, fs_dirs, input_file,
                   stems, todo, encoded_stems, result, cleanup_ran, dvars>>

\* run_demucs_separation up to the end of subprocess.run
RunDemucs ==
    /\ pc = "demucs"
    /\ cmd' = [n |-> model,
               two_stems |-> IF Truthy(two_stems) THEN two_stems ELSE None,
               segment |-> segment,
               input |-> temp_dir]
    /\ \/ \* returncode 0: demucs wrote what it wrote
          /\ proc' = "ok"
          /\ \E tree \in {"none", "empty", "track"} :
                /\ out_tree' = tree
                /\ IF tree = "track"
                   THEN \E names \in SUBSET DemucsOutputs(two_stems) :
                        \E e \in 1..Len(Exts) :
                            files' = {<<nm, Exts[e]>> : nm \in names}
                   ELSE files' = {}
          /\ completed' = Append(completed, "demucs")
          /\ pc' = "locate"
          /\ UNCHANGED pending
       \/ \* returncode != 0
          /\ proc' = "failed"
          /\ ReturnViaFinally(ErrorResult("Separation failed: " \o "Demucs process failed"))
          /\ UNCHANGED <<out_tree, files, completed>>
       \/ \* subprocess.TimeoutExpired
          /\ proc' = "timeout"
          /\ ReturnViaFinally(ErrorResult("Separation failed: " \o "Demucs process timed out"))
          /\ UNCHANGED <<out_tree, files, completed>>
    /\ UNCHANGED <<requests, event, model, two_stems, segment, gpu_available,
                   gpu_probed, seg_consulted, temp_dir, fs_dirs, input_file,
                   stems, todo, encoded_stems, result, cleanup_ran, dvars>>

\* run_demucs_separation after subprocess.run: find the stem files
Locate ==
    /\ pc = "locate"
    /\ IF out_tree = "none"
       THEN /\ ReturnViaFinally(ErrorResult("Separation failed: " \o "Output directory not found"))
            /\ UNCHANGED <<stems, todo, completed>>
       ELSE IF out_tree = "empty"
       THEN /\ ReturnViaFinally(ErrorResult("Separation failed: " \o "No output directory found"))
            /\ UNCHANGED <<stems, todo, completed>>
       ELSE /\ stems' = CollectStems(files, two_stems)
            /\ IF stems' = <<>>
               THEN /\ ReturnViaFinally(ErrorResult("Separation failed: " \o "No stem files found"))
                    /\ UNCHANGED <<todo, completed>>
               ELSE /\ todo' = stems'
                    /\ completed' = Append(completed, "locate")
                    /\ pc' = "encode"
                    /\ UNCHANGED pending
    /\ UNCHANGED <<requests, event, model, two_stems, segment, gpu_available,
                   gpu_probed, seg_consulted, temp_dir, fs_dirs, input_file, cmd, proc,
                   out_tree, files, encoded_stems, result, cleanup_ran, dvars>>

\* EncodeStem with the stems encoded so far returned next to the error
EncodeStemMut ==
    /\ pc = "encode"
    /\ todo # <<>>
    /\ LET stem_name == Head(todo)[1]
           stem_path == Head(todo)
       IN \/ /\ encoded_stems' =
                    (stem_name :> encode_audio_to_base64(stem_path)) @@ encoded_stems
             /\ todo' = Tail(todo)
             /\ IF todo' = <<>>
                THEN /\ completed' = Append(completed, "encode")
                     /\ pc' = "return"
                ELSE UNCHANGED <<completed, pc>>
             /\ UNCHANGED pending
          \/ /\ ReturnViaFinally([error |-> "Failed to encode " \o stem_name,
                                  stems |-> encoded_stems])
             /\ UNCHANGED <<encoded_stems, todo, completed>>
    /\ UNCHANGED <<requests, event, model, two_stems, segment, gpu_available,
                   gpu_probed, seg_consulted, temp_dir, fs_dirs, input_file, cmd, proc,
                   out_tree, files, stems, result, cleanup_ran, dvars>>

\* one iteration of the encode loop
EncodeStem ==
    /\ pc = "encode"
    /\ todo # <<>>
    /\ LET stem_name == Head(todo)[1]
           stem_path == Head(todo)
       IN \/ /\ encoded_stems' =
                    (stem_name :> encode_audio_to_base64(stem_path)) @@ encoded_stems
             /\ todo' = Tail(todo)
             /\ IF todo' = <<>>
                THEN /\ completed' = Append(completed, "encode")
                     /\ pc' = "return"
                ELSE UNCHANGED <<completed, pc>>
             /\ UNCHANGED pending
          \/ /\ ReturnViaFinally(ErrorResult("Failed to encode " \o stem_name))
             /\ UNCHANGED <<encoded_stems, todo, completed>>
    /\ UNCHANGED <<requests, event, model, two_stems, segment, gpu_available,
                   gpu_probed, seg_consulted, temp_dir, fs_dirs, input_file, cmd, proc,
                   out_tree, files, stems, result, cleanup_ran, dvars>>

\* the successful return statement
BuildResult ==
    /\ pc = "return"
    /\ ReturnViaFinally([success |-> TRUE,
                         stems |-> encoded_stems,
                         model_used |-> model,
                         gpu_used |-> gpu_available,
                         segment_size |-> segment])
    /\ completed' = Append(completed, "return")
    /\ UNCHANGED <<requests, event, model, two_stems, segment, gpu_available,
                   gpu_probed, seg_consulted, temp_dir, fs_dirs, input_file, cmd, proc,
                   out_tree, files, stems, todo, encoded_stems, result,
                   cleanup_ran, dvars>>

\* the finally clause, then the pending return reaches the caller
Cleanup ==
    /\ pc = "cleanup"
    /\ cleanup_ran' = TRUE
    /\ \/ \* shutil.rmtree(temp_dir) succeeded
          /\ fs_dirs' = fs_dirs \ {temp_dir}
          /\ input_file' = FALSE
       \/ \* shutil.rmtree raised: logged as a warning
          UNCHANGED <<fs_dirs, input_file>>
    /\ result' = pending
    /\ pc' = "returned"
    /\ UNCHANGED <<requests, event, model, two_stems, segment, gpu_available,
                   gpu_probed, seg_consulted, temp_dir, cmd, proc, out_tree, files,
                   stems, todo, encoded_stems, pending, completed, dvars>>

HNext ==
    \/ Receive
    \/ Validate
    \/ CheckGPU
    \/ MkTemp
    \/ MakeDirs
    \/ Download
    \/ RunDemucs
    \/ Locate
    \/ EncodeStem
    \/ BuildResult
    \/ Cleanup

----------------------------------------------------------------------------
(* deploy.py *)

RequiredTools == <<"docker", "git">>
ConfigFile == "runpod_config.json"
InstructionsFile == "DEPLOYMENT.md"

DeployOrder == <<"check_requirements", "build_docker_image", "test_docker_image",
                 "create_runpod_config", "create_deployment_instructions">>

\* the deploy script is not running
DIdle ==
    /\ dpc = "check_requirements"
    /\ tools_left = RequiredTools
    /\ missing_tools = <<>>
    /\ installed = {"docker", "git"}
    /\ image = "absent"
    /\ dfiles = [f \in {ConfigFile, InstructionsFile} |-> "absent"]
    /\ steps = <<"check_requirements">>
    /\ passed = {}
    /\ exit_status = 0 - 1

\* main() has just called check_requirements() on some machine: any of the
\* tools may be missing, and an earlier run may have left an image and files
DInit ==
    /\ dpc = "check_requirements"
    /\ tools_left = RequiredTools
    /\ missing_tools = <<>>
    /\ installed \in SUBSET {"docker", "git"}
    /\ image \in {"absent", "stale"}
    /\ dfiles \in [{ConfigFile, InstructionsFile} -> {"absent", "stale"}]
    /\ steps = <<"check_requirements">>
    /\ passed = {}
    /\ exit_status = 0 - 1

\* sys.exit(1), or an exception that leaves main()
Exit1 ==
    /\ exit_status' = 1
    /\ dpc' = "exited"
    /\ UNCHANGED <<steps, passed>>

\* the step returned what lets main() go on: main() calls the next one
CallNext(step, next) ==
    /\ passed' = passed \cup {step}
    /\ steps' = Append(steps, next)
    /\ dpc' = next
    /\ UNCHANGED exit_status

\* one iteration of the loop over required_tools
CheckTool ==
    /\ dpc = "check_requirements"
    /\ tools_left # <<>>
    /\ LET tool == Head(tools_left)
       IN missing_tools' = IF tool \notin installed
                           THEN Append(missing_tools, tool)
                           ELSE missing_tools
    /\ tools_left' = Tail(tools_left)
    /\ UNCHANGED <<hvars, dpc, installed, image, dfiles, steps, passed, exit_status>>

\* the return of check_requirements and main()'s test of it
CheckRequirementsReturn ==
    /\ dpc = "check_requirements"
    /\ tools_left = <<>>
    /\ IF missing_tools # <<>>
       THEN Exit1
       ELSE CallNext("check_requirements", "build_docker_image")
    /\ UNCHANGED <<hvars, tools_left, missing_tools, installed, image, dfiles>>

\* BuildDockerImage with main() going on after a failed build
BuildDockerImageMut ==
    /\ dpc = "build_docker_image"
    /\ \/ /\ image' = "built"
          /\ CallNext("build_docker_image", "test_docker_image")
       \/ /\ steps' = Append(steps, "test_docker_image")
          /\ dpc' = "test_docker_image"
          /\ UNCHANGED <<image, passed, exit_status>>
    /\ UNCHANGED <<hvars, tools_left, missing_tools, installed, dfiles>>

BuildDockerImage ==
    /\ dpc = "build_docker_image"
    /\ \/ \* docker build succeeded
          /\ image' = "built"
          /\ CallNext("build_docker_image", "test_docker_image")
       \/ \* subprocess.CalledProcessError: returns False
          /\ Exit1
          /\ UNCHANGED image
    /\ UNCHANGED <<hvars, tools_left, missing_tools, installed, dfiles>>

TestDockerImage ==
    /\ dpc = "test_docker_image"
    /\ \/ \* docker run succeeded
          CallNext("test_docker_image", "create_runpod_config")
       \/ \* subprocess.CalledProcessError: returns False
          Exit1
       \/ \* subprocess.TimeoutExpired: returns False
          Exit1
    /\ UNCHANGED <<hvars, tools_left, missing_tools, installed, image, dfiles>>

CreateRunpodConfig ==
    /\ dpc = "create_runpod_config"
    /\ \/ /\ dfiles' = [dfiles EXCEPT ![ConfigFile] = "written"]
          /\ CallNext("create_runpod_config", "create_deployment_instructions")
       \/ \* open() raised: the exception leaves main()
          /\ Exit1
          /\ UNCHANGED dfiles
    /\ UNCHANGED <<hvars, tools_left, missing_tools, installed, image>>

CreateDeploymentInstructions ==
    /\ dpc = "create_deployment_instructions"
    /\ \/ /\ dfiles' = [dfiles EXCEPT ![InstructionsFile] = "written"]
          /\ passed' = passed \cup {"create_deployment_instructions"}
          /\ dpc' = "done"
          /\ exit_status' = 0
          /\ UNCHANGED steps
       \/ \* open() raised: the exception leaves main()
          /\ Exit1
          /\ UNCHANGED dfiles
    /\ UNCHANGED <<hvars, tools_left, missing_tools, installed, image>>

DNext ==
    \/ CheckTool
    \/ CheckRequirementsReturn
    \/ BuildDockerImage
    \/ TestDockerImage
    \/ CreateRunpodConfig
    \/ CreateDeploymentInstructions

----------------------------------------------------------------------------
(* Specifications *)

Init == HInit /\ DIdle

\* one worker process serving requests
Spec == Init /\ [][HNext]_vars

DeployInit == HInit /\ DInit

\* one run of deploy.py
DeploySpec == DeployInit /\ [][DNext]_vars

----------------------------------------------------------------------------
(* Properties *)

Last(q) == q[Len(q)]
Range(q) == {q[i] : i \in 1..Len(q)}

\* the 'input' of an event, as handler reads it
InputOf(ev) == Get(ev.items, "input", PyDict(EmptyDict))
MissingAudioUrl(ev) ==
    /\ InputOf(ev).type = "dict"
    /\ "audio_url" \notin DOMAIN InputOf(ev).items
InvalidModel(ev) ==
    /\ InputOf(ev).type = "dict"
    /\ Get(InputOf(ev).items, "model", "htdemucs") \notin DOMAIN MODELS

IsSuccess(r) ==
    /\ {"success", "stems"} \subseteq DOMAIN r
    /\ "error" \notin DOMAIN r
    /\ r.success = TRUE
    /\ r.stems # EmptyDict
IsError(r) ==
    /\ "error" \in DOMAIN r
    /\ "stems" \notin DOMAIN r
    /\ "success" \notin DOMAIN r

\* C1: the stages of an invocation complete in the order download, demucs,
\* locate, encode, return; the handler is at a stage only when exactly the
\* stages before it completed successfully, the effects of a stage (the
\* command line, the located stems, the encoded stems) exist only when the
\* stages before it completed, and stems are returned only when every stage
\* completed.
C1_StagesInOrder ==
    /\ IsPrefix(completed, StageOrder)
    /\ \A i \in 1..Len(StageOrder) :
          pc = StageOrder[i] => completed = SubSeq(StageOrder, 1, i - 1)
    /\ cmd # EmptyDict => Len(completed) >= 1
    /\ stems # <<>> => Len(completed) >= 2
    /\ encoded_stems # EmptyDict => Len(completed) >= 3
    /\ "stems" \in DOMAIN pending => completed = StageOrder
    /\ "stems" \in DOMAIN result => completed = StageOrder
    /\ (pc = "returned" /\ completed # StageOrder) => "stems" \notin DOMAIN result

\* C1 witness: encoding failed after one stem was encoded; the handler
\* returned an error and no stem
C1_Witness ==
    /\ pc = "returned"
    /\ completed = SubSeq(StageOrder, 1, 3)
    /\ encoded_stems # EmptyDict
    /\ IsError(result)

\* C2: when handler has returned, no temporary directory exists on disk.
C2_NoTempDirSurvives ==
    pc \in {"idle", "returned"} => fs_dirs = {}

\* C3: what handler returns is exactly one of a success result with a
\* non-empty stems map and an error result without stems.
C3_SuccessXorError ==
    pc = "returned" =>
        /\ IsSuccess(result) \/ IsError(result)
        /\ ~(IsSuccess(result) /\ IsError(result))
        /\ "error" \in DOMAIN result => DOMAIN result = {"error"}

\* C3 witness: the input was not a dict and the handler returned an error
C3_Witness ==
    /\ pc = "returned"
    /\ InputOf(event) = PyNone
    /\ IsError(result)

\* C4: in two-stems mode a successful response holds the target stem and
\* the accompaniment remainder, and nothing else.
C4_TwoStemsPair ==
    (pc = "returned" /\ Truthy(two_stems) /\ "stems" \in DOMAIN result) =>
        DOMAIN result.stems = {two_stems, "no_" \o two_stems}

\* C5: without two_stems, a successful response holds all four of drums,
\* bass, other and vocals.
C5_AllFourStems ==
    (pc = "returned" /\ two_stems = None /\ "stems" \in DOMAIN result) =>
        DOMAIN result.stems = Range(StemNames)

\* C6: a request without audio_url or with an unknown model never probes
\* the GPU, creates a temporary directory, downloads or starts demucs; it
\* returns an error, and the missing audio_url is reported before the
\* unknown model.
C6_ValidationNoSideEffects ==
    (MissingAudioUrl(event) \/ InvalidModel(event)) =>
        /\ ~gpu_probed
        /\ ~seg_consulted
        /\ temp_dir = 0
        /\ ~input_file
        /\ cmd = EmptyDict
        /\ proc = "none"
        /\ ~cleanup_ran
        /\ pc \in {"idle", "validate", "returned"}
        /\ pc = "returned" =>
              /\ IsError(result)
              /\ IF MissingAudioUrl(event)
                 THEN result.error = "Missing required parameter: audio_url"
                 ELSE result.error = "Invalid model 'unknown_model'"

\* C6 witness: audio_url missing and the model unknown
C6_Witness ==
    /\ pc = "returned"
    /\ MissingAudioUrl(event)
    /\ InvalidModel(event)
    /\ result = ErrorResult("Missing required parameter: audio_url")

\* C7: after a demucs timeout no stem is looked for or encoded, the
\* handler goes straight to the cleanup and returns
\* 'Separation failed: Demucs process timed out'.
C7_TimeoutHandled ==
    proc = "timeout" =>
        /\ pc \in {"cleanup", "returned"}
        /\ stems = <<>>
        /\ todo = <<>>
        /\ encoded_stems = EmptyDict
        /\ completed = <<"download">>
        /\ pc = "cleanup" =>
              pending = ErrorResult("Separation failed: Demucs process timed out")
        /\ pc = "returned" =>
              /\ cleanup_ran
              /\ result = ErrorResult("Separation failed: Demucs process timed out")

\* C7 witness: the handler returned after a timeout
C7_Witness ==
    /\ pc = "returned"
    /\ proc = "timeout"
    /\ cleanup_ran

\* C8: main() calls the steps in the fixed order, each only after the one
\* before returned True; after a False from one of the three checks the
\* process has exited with status 1 at that step and wrote neither file;
\* a file is written only after the three checks passed.
C8_DeployOrder ==
    LET checks == Range(SubSeq(DeployOrder, 1, 3))
    IN /\ IsPrefix(steps, DeployOrder)
       /\ \A i \in 1..Len(steps) : i < Len(steps) => steps[i] \in passed
       /\ passed \subseteq Range(steps)
       /\ (dpc = "exited" /\ Last(steps) \in checks) =>
             /\ exit_status = 1
             /\ Last(steps) \notin passed
             /\ \A f \in DOMAIN dfiles : dfiles[f] # "written"
       /\ \A f \in DOMAIN dfiles : dfiles[f] = "written" => checks \subseteq passed
       /\ dfiles[InstructionsFile] = "written" => dfiles[ConfigFile] = "written"
       /\ exit_status = 0 => \A f \in DOMAIN dfiles : dfiles[f] = "written"

\* C8 witness: the image was built, its test failed, the process exited
C8_Witness ==
    /\ dpc = "exited"
    /\ Last(steps) = "test_docker_image"
    /\ image = "built"
    /\ exit_status = 1

C10_SegmentWithinMax ==
    (cmd # EmptyDict /\ cmd.n \in HTModels) =>
        cmd.segment * 10 <= MODELS[cmd.n].max_segment

====
